---- MODULE Spec2Model ----
(***************************************************************************)
(* A model of go-testdb's provisioning algorithm: New (src/migrate.go)     *)
(* run by several tests against one Postgres server,                       *)
(* with the Postgres Initializer (pgInitializer, PgDb) and the command     *)
(* line Migrator (cliMigrator).                                            *)
(*                                                                         *)
(* Every caller is one test: it owns a testing.TB (its list of cleanups)   *)
(* and calls New once, in the same test binary as the others or in         *)
(* another.  The server state is the set of databases with                 *)
(* their schema, and the session-level advisory locks.  Any operation that *)
(* talks to the server or runs a command may fail; the number of failures  *)
(* in one behaviour is bounded by MaxFaults.                               *)
(*                                                                         *)
(* Specifications:                                                         *)
(*   Spec, FairSpec  New and the cleanups, default ErrorHandler            *)
(*   SpecNil         some tests pass a nil Migrator to NewPg               *)
(*   SpecRec         ErrorHandler substituted by a hook that returns       *)
(*   SpecUse         the tests use their handles: Insert, Drop, Name       *)
(*   SpecClients     other clients hold sessions on the databases          *)
(*   SpecNames       verifyPgDbName on the names the backend is handed     *)
(***************************************************************************)
EXTENDS Naturals, Sequences, FiniteSets

\* ------------------------------------------------------------------ bounds

NumCallers == 2

MaxFaults == 2

\* How many rows the test bodies insert into one database.
MaxInserts == 1

\* How often a test body calls Drop itself, before its cleanups run.
MaxDropsInTest == 1

\* How many sessions other clients have on one database.
MaxSessions == 1

\* How long the names handed to the backend are, in characters.
MaxNameLen == 2

Callers == 1..NumCallers

\* The digests cliMigrator.Hash can return: one per migrations directory
\* content (md5sum output, lower-case hex).  They stand for
\*   h1 = 5d5c18e4cd078a34b4db2ac85fbc1ed0
\*   h2 = 8277e0910d750195b448797616e091ad
\*   h3 = 6c088d0fc5b811089baf86ce80c024c8
Hashes == {"h1", "h2", "h3"}

\* The migrations directories of one behaviour: the tests of a run use two.
DigestSets == {{"h1", "h2"}, {"h1", "h3"}}

NoHash == "none"

NoCaller == 0

\* ------------------------------------------------------------------ names

\* A template name without the digest in it.
TemplateNameFixed(h) == <<"test_template", "h1">>

\* templateName := fmt.Sprintf("test_template_%s", migrationHash)
TemplateName(h) == <<"test_template", h>>

\* testDbName := fmt.Sprintf("test_db_%s", uuid): a fresh id per call of New,
\* so the call itself identifies it.
TestDbName(c) == <<"test_db", c>>

TemplateNames == {TemplateName(h) : h \in Hashes}

TestDbNames == {TestDbName(c) : c \in Callers}

DbNames == TemplateNames \cup TestDbNames

\* What a database holds: nothing on the server ("absent"), no schema
\* ("blank"), a schema some failed migration run left behind ("partial"), or
\* the schema of the migrations with digest h (h itself).
Absent == "absent"

\* crc32.ChecksumIEEE([]byte(name)) of the template names: the 32-bit
\* checksums of "test_template_" followed by the digests h1, h2 and h3.
ChecksumIEEE(name) ==
    CASE name[2] = "h1" -> 297564326
      [] name[2] = "h2" -> 218953704
      [] name[2] = "h3" -> 297564326

\* The key pg_advisory_lock is called with for a name: the CRC-32 of the
\* name.
LockKey(name) == ChecksumIEEE(name)

LockKeys == {LockKey(n) : n \in TemplateNames}

\* The outcomes of exec.Cmd.Output() in cliMigrator.Migrate: nil, an
\* *exec.ExitError (migrate ran and exited non-zero), or any other error
\* (migrate could not be started or its output could not be read).
CmdOutcomes == {"nil", "exit", "other"}

VARIABLES
    pc,         \* where each caller is in New, its test body or its cleanups
    hash,       \* migrationHash of the call
    dbs,        \* the server: database name -> content
    lock,       \* the server: advisory lock key -> holding session
    done,       \* New's local `done`, captured by the template cleanup
    cleanups,   \* t's registered cleanup functions, in registration order
    handle,     \* the Db New returned (a PgDb), or NoDb
    reported,   \* the operations for which ErrorHandler was invoked
    swallowed,  \* the operations that failed without ErrorHandler invoked
    faults,     \* failures so far in this behaviour
    calls,      \* how often each caller invoked each operation
    sawExists,  \* what Exists returned to the caller
    clonedFrom, \* the template's content when the caller cloned it
    env,        \* what the behaviour runs with: hook, migrators, digests
    rows,       \* the server: database name -> rows the tests inserted
    conns,      \* PgDb.conns of each handle: dsn -> state of the connection
    others,     \* the server: database name -> sessions of other clients
    vname,      \* the name a backend statement is built for
    verdict,    \* what verifyPgDbName did with vname
    issued      \* the statements sent to the server with vname in them

names == <<vname, verdict, issued>>

vars == <<pc, hash, dbs, lock, done, cleanups, handle, reported, swallowed,
          faults, calls, sawExists, clonedFrom, env, rows, conns, others,
          vname, verdict, issued>>

NoName == <<"none", 0>>

\* A connection string: the server part, which New never changes, and the
\* database name of the "/name?" part.
Dsn(name) == <<"dsn", name>>

\* The dsn New is called with: the administrative database.
RootDsn == Dsn(<<"root", 0>>)

\* A NewDsn that hands back the base DSN.
NewDsnKeepsBase(base, newName) == base

\* pgInitializer.NewDsn: the "/name?" part of base replaced by "/newName?".
NewDsn(base, newName) == <<base[1], newName>>

\* pgx.ParseConfig(dsn).Database
ConfDatabase(dsn) == dsn[2]

\* pgInitializer.NewDb: &PgDb{name: conf.Database, dsn: dsn, rootDsn: rootDsn}
PgDb(rootDsn, dsn) ==
    [name |-> ConfDatabase(dsn), dsn |-> dsn, rootDsn |-> rootDsn]

\* No Db: New has not returned one.
NoDb == [name |-> NoName, dsn |-> Dsn(NoName), rootDsn |-> Dsn(NoName)]

\* The operations New performs, in the Initializer's and Migrator's names.
ProvisioningOps ==
    {"Connect", "Hash", "Lock", "Exists", "Create", "NewDsn", "Migrate",
     "CreateFromTemplate", "Unlock", "NewDb"}

\* The operations the registered cleanups perform.
CleanupOps == {"Remove", "Drop"}

\* The operations of a Db the test body performs (Drop is one of them too).
DbOps == {"Insert"}

Ops == ProvisioningOps \cup CleanupOps \cup DbOps

\* PgDb.conns before connect has been called: no connection cached, neither
\* for p.dsn ("db") nor for p.rootDsn ("root").
NoConns == [db |-> "none", root |-> "none"]

\* The setting New is used in by default: the halting ErrorHandler, a
\* cliMigrator for every caller, every operation may fail.
Defaults ==
    [hook |-> "fatal",
     migrator |-> [c \in Callers |-> "cli"],
     digests |-> {"h1", "h2"},
     faultable |-> Ops]

\* The state before any test has called New, in the setting e; given is the
\* name the backend is going to be handed.
StartNamed(e, given) ==
    /\ pc = [c \in Callers |-> "connect"]
    /\ hash = [c \in Callers |-> NoHash]
    /\ dbs = [n \in DbNames |-> Absent]
    /\ lock = [k \in LockKeys |-> NoCaller]
    /\ done = [c \in Callers |-> FALSE]
    /\ cleanups = [c \in Callers |-> <<>>]
    /\ handle = [c \in Callers |-> NoDb]
    /\ reported = [c \in Callers |-> {}]
    /\ swallowed = [c \in Callers |-> {}]
    /\ faults = 0
    /\ calls = [c \in Callers |-> [o \in Ops |-> 0]]
    /\ sawExists = [c \in Callers |-> "unknown"]
    /\ clonedFrom = [c \in Callers |-> "none"]
    /\ env = e
    /\ rows = [n \in DbNames |-> 0]
    /\ conns = [c \in Callers |-> NoConns]
    /\ others = [n \in DbNames |-> 0]
    /\ vname = given
    /\ verdict = "unchecked"
    /\ issued = {}

Start(e) == StartNamed(e, <<>>)

Init == \E ds \in DigestSets : Start([Defaults EXCEPT !.digests = ds])

\* ------------------------------------------------------- failure reporting

\* A hook that records the failure and returns to its caller.
ErrorHandlerReturns(c, op, resume) ==
    /\ reported' = [reported EXCEPT ![c] = @ \cup {op}]
    /\ pc' = [pc EXCEPT ![c] = resume]

\* A hook that ends the test function whatever was substituted.
HaltsAlways == TRUE

\* Whether the function in the package variable ErrorHandler ends the test
\* function: the default does, a substituted one that records need not.
Halts == env.hook = "fatal"

\* ErrorHandler (the default): t.Fatal records the failure and ends the test
\* function with runtime.Goexit, so control never reaches `resume`, the
\* statement after the failed call; the test's cleanups run next.  After a
\* substituted hook that returns, control is at `resume`.
ErrorHandler(c, op, resume) ==
    /\ reported' = [reported EXCEPT ![c] = @ \cup {op}]
    /\ pc' = [pc EXCEPT ![c] = IF Halts THEN "cleanup" ELSE resume]

\* must: the hook is invoked iff err is not nil.
must(c, err, op, resume) ==
    IF err
    THEN ErrorHandler(c, op, resume)
    ELSE /\ pc' = [pc EXCEPT ![c] = resume]
         /\ UNCHANGED reported

\* An operation may fail only while the behaviour's failures are not used up.
MayFail(err) == err => faults < MaxFaults

Invoked(c, op, err) ==
    /\ err => op \in env.faultable
    /\ calls' = [calls EXCEPT ![c][op] = @ + 1]
    /\ faults' = IF err THEN faults + 1 ELSE faults

\* ---------------------------------------------------------------- New

\* root := h.Connect(t, dsn)
Connect(c, err) ==
    /\ pc[c] = "connect"
    /\ MayFail(err)
    /\ Invoked(c, "Connect", err)
    /\ must(c, err, "Connect", "hash")
    /\ UNCHANGED <<hash, dbs, lock, done, cleanups, handle, swallowed,
                   sawExists, clonedFrom>>
    /\ UNCHANGED <<env, rows, conns, others, names>>

\* Whether New was handed a Migrator it can call: NewPg passes its
\* argument on as it is, and a method call on a nil interface value is a
\* run-time panic.
Callable(m) == m # "nil"

\* migrationHash := m.Hash(t): the digest of the caller's migrations
\* directory; the md5sum pipeline may fail.  On a nil Migrator the call
\* panics: the test is over, without a handle.
Hash(c, err) ==
    /\ pc[c] = "hash"
    /\ IF Callable(env.migrator[c])
       THEN /\ MayFail(err)
            /\ Invoked(c, "Hash", err)
            /\ must(c, err, "Hash", "lock")
            /\ \E h \in env.digests :
                  hash' = [hash EXCEPT ![c] = IF err THEN NoHash ELSE h]
       ELSE /\ ~err
            /\ pc' = [pc EXCEPT ![c] = "panicked"]
            /\ UNCHANGED <<hash, calls, faults, reported>>
    /\ UNCHANGED <<dbs, lock, done, cleanups, handle, swallowed,
                   sawExists, clonedFrom>>
    /\ UNCHANGED <<env, rows, conns, others, names>>

\* A lock call that returns although another session holds the key.
LockFreeAlways(c, key) == TRUE

\* pg_advisory_lock waits until no other session holds the key.
LockFree(c, key) == lock[key] = NoCaller

\* h.Lock(t, root, templateName)
Lock(c, err) ==
    /\ pc[c] = "lock"
    /\ MayFail(err)
    /\ err \/ LockFree(c, LockKey(TemplateName(hash[c])))
    /\ Invoked(c, "Lock", err)
    /\ must(c, err, "Lock", "exists")
    /\ lock' = IF err THEN lock
               ELSE [lock EXCEPT ![LockKey(TemplateName(hash[c]))] = c]
    /\ UNCHANGED <<hash, dbs, done, cleanups, handle, swallowed,
                   sawExists, clonedFrom>>
    /\ UNCHANGED <<env, rows, conns, others, names>>

\* Whether the server has a database of that name.
DbExists(name) == dbs[name] # Absent

\* Exists with the row test the wrong way round: never finds the database.
ExistsReturnsFalse(name) == FALSE

\* pgInitializer.Exists: SELECT true FROM pg_database WHERE datname = $1;
\* no row is `false`.
ExistsReturns(name) == DbExists(name)

\* if !h.Exists(t, root, templateName) { ... }
Exists(c, err) ==
    /\ pc[c] = "exists"
    /\ MayFail(err)
    /\ Invoked(c, "Exists", err)
    /\ LET found == ExistsReturns(TemplateName(hash[c]))
       IN /\ must(c, err, "Exists", IF found THEN "clone" ELSE "create")
          /\ sawExists' = [sawExists EXCEPT ![c] =
                 IF err THEN @ ELSE IF found THEN "yes" ELSE "no"]
    /\ UNCHANGED <<hash, dbs, lock, done, cleanups, handle, swallowed,
                   clonedFrom>>
    /\ UNCHANGED <<env, rows, conns, others, names>>

\* CREATE DATABASE "name": the engine refuses a name that is taken.
\* done := false; t.Cleanup(func() { if !done { h.Remove(...) } })
Create(c, err) ==
    /\ pc[c] = "create"
    /\ MayFail(err)
    /\ Invoked(c, "Create", err)
    /\ LET name == TemplateName(hash[c])
           failed == err \/ DbExists(name)
           stopped == failed /\ Halts
       IN /\ must(c, failed, "Create", "newdsn1")
          /\ dbs' = IF failed THEN dbs ELSE [dbs EXCEPT ![name] = "blank"]
          /\ done' = IF stopped THEN done ELSE [done EXCEPT ![c] = FALSE]
          /\ cleanups' = IF stopped THEN cleanups
                         ELSE [cleanups EXCEPT ![c] = Append(@, "removeTemplate")]
    /\ UNCHANGED <<hash, lock, handle, swallowed, sawExists, clonedFrom>>
    /\ UNCHANGED <<env, rows, conns, others, names>>

\* h.NewDsn(t, dsn, templateName), the argument of m.Migrate: the hook is
\* invoked when the base DSN has no "/name?" part.
NewDsnTemplate(c, err) ==
    /\ pc[c] = "newdsn1"
    /\ MayFail(err)
    /\ Invoked(c, "NewDsn", err)
    /\ must(c, err, "NewDsn", "migrate")
    /\ UNCHANGED <<hash, dbs, lock, done, cleanups, handle, swallowed,
                   sawExists, clonedFrom>>
    /\ UNCHANGED <<env, rows, conns, others, names>>

\* cliMigrator.Migrate: `if errors.As(err, &exitErr) { must(t, ...) }`: the
\* hook is invoked for an *exec.ExitError only.
MigrateReports(out) == out = "exit"

\* What `migrate ... up` leaves in the database it was pointed at.
Migrated(before, h, out) ==
    IF out = "nil" THEN h
    ELSE IF out = "exit" THEN "partial"
    ELSE before

\* m.Migrate(t, h.NewDsn(t, dsn, templateName)); done = true
Migrate(c, out) ==
    /\ pc[c] = "migrate"
    /\ MayFail(out # "nil")
    /\ Invoked(c, "Migrate", out # "nil")
    /\ LET name == TemplateName(hash[c])
       IN /\ dbs' = [dbs EXCEPT ![name] = Migrated(@, hash[c], out)]
          /\ must(c, MigrateReports(out), "Migrate", "clone")
          /\ done' = IF MigrateReports(out) /\ Halts THEN done
                     ELSE [done EXCEPT ![c] = TRUE]
          /\ swallowed' = IF out # "nil" /\ ~MigrateReports(out)
                          THEN [swallowed EXCEPT ![c] = @ \cup {"Migrate"}]
                          ELSE swallowed
    /\ UNCHANGED <<hash, lock, cleanups, handle, sawExists, clonedFrom>>
    /\ UNCHANGED <<env, rows, conns, others, names>>

\* CREATE DATABASE "name" TEMPLATE "template": the clone holds what the
\* template holds, schema and rows; the engine refuses a template that does
\* not exist or that another session is connected to.
CreateFromTemplate(c, err) ==
    /\ pc[c] = "clone"
    /\ MayFail(err)
    /\ Invoked(c, "CreateFromTemplate", err)
    /\ LET template == TemplateName(hash[c])
           failed == err \/ ~DbExists(template) \/ others[template] > 0
       IN /\ must(c, failed, "CreateFromTemplate", "unlock")
          /\ dbs' = IF failed THEN dbs
                    ELSE [dbs EXCEPT ![TestDbName(c)] = dbs[template]]
          /\ rows' = IF failed THEN rows
                     ELSE [rows EXCEPT ![TestDbName(c)] = rows[template]]
          /\ clonedFrom' = IF failed THEN clonedFrom
                           ELSE [clonedFrom EXCEPT ![c] = dbs[template]]
    /\ UNCHANGED <<hash, lock, done, cleanups, handle, swallowed, sawExists>>
    /\ UNCHANGED <<env, conns, others, names>>

\* pg_advisory_unlock releases the key if this session holds it.
Released(c, key) ==
    IF lock[key] = c THEN [lock EXCEPT ![key] = NoCaller] ELSE lock

\* h.Unlock(t, root, templateName)
Unlock(c, err) ==
    /\ pc[c] = "unlock"
    /\ MayFail(err)
    /\ Invoked(c, "Unlock", err)
    /\ must(c, err, "Unlock", "newdsn2")
    /\ lock' = IF err THEN lock
               ELSE Released(c, LockKey(TemplateName(hash[c])))
    /\ UNCHANGED <<hash, dbs, done, cleanups, handle, swallowed,
                   sawExists, clonedFrom>>
    /\ UNCHANGED <<env, rows, conns, others, names>>

\* testDbDsn := h.NewDsn(t, dsn, testDbName)
NewDsnTestDb(c, err) ==
    /\ pc[c] = "newdsn2"
    /\ MayFail(err)
    /\ Invoked(c, "NewDsn", err)
    /\ must(c, err, "NewDsn", "newdb")
    /\ UNCHANGED <<hash, dbs, lock, done, cleanups, handle, swallowed,
                   sawExists, clonedFrom>>
    /\ UNCHANGED <<env, rows, conns, others, names>>

\* New without the registration of the teardown.
WithoutTeardown(registered) == registered

\* t.Cleanup(func() { db.Drop(t) }): one teardown for the handle.
WithTeardown(registered) == Append(registered, "drop")

\* db := h.NewDb(t, dsn, testDbDsn); t.Cleanup(func() { db.Drop(t) });
\* return db.  PgDb.name is the database of testDbDsn (pgx.ParseConfig).
NewDb(c, err) ==
    /\ pc[c] = "newdb"
    /\ MayFail(err)
    /\ Invoked(c, "NewDb", err)
    /\ must(c, err, "NewDb", "returned")
    /\ handle' = IF err THEN handle
                 ELSE [handle EXCEPT ![c] =
                          PgDb(RootDsn, NewDsn(RootDsn, TestDbName(c)))]
    /\ cleanups' = IF err THEN cleanups
                   ELSE [cleanups EXCEPT ![c] = WithTeardown(@)]
    /\ UNCHANGED <<hash, dbs, lock, done, swallowed, sawExists, clonedFrom>>
    /\ UNCHANGED <<env, rows, conns, others, names>>

\* ------------------------------------------------- the end of the test

\* The test function that called New returns.
TestEnd(c) ==
    /\ pc[c] = "returned"
    /\ pc' = [pc EXCEPT ![c] = "cleanup"]
    /\ UNCHANGED <<hash, dbs, lock, done, cleanups, handle, reported,
                   swallowed, faults, calls, sawExists, clonedFrom>>
    /\ UNCHANGED <<env, rows, conns, others, names>>

\* testing runs the registered cleanups last registered first.
NextCleanup(c) == cleanups[c][Len(cleanups[c])]

Popped(c) == [cleanups EXCEPT ![c] = SubSeq(@, 1, Len(@) - 1)]

\* A template cleanup that does not look at `done`.
RemovesTemplateAlways(c) == TRUE

\* The template cleanup reads `done` when it runs.
RemovesTemplate(c) == ~done[c]

\* The sessions connected to a database: those of other clients and the
\* connections the handles have cached for it and not closed.
Sessions(name) ==
    others[name]
    + Cardinality({c \in Callers : /\ handle[c].name = name
                                   /\ conns[c].db = "open"})

\* DROP DATABASE without IF EXISTS: also an error when there is no such
\* database.
DropDatabaseRefusedIfAbsent(name, connected) ==
    ~DbExists(name) \/ connected > 0

\* DROP DATABASE IF EXISTS: nothing to do, and no error, when there is no
\* such database; an error when sessions are connected to it.
DropDatabaseRefused(name, connected) == DbExists(name) /\ connected > 0

\* func() { if !done { h.Remove(t, root, templateName) } }
\* pgInitializer.Remove: DROP DATABASE IF EXISTS name, and nothing else.
CleanupTemplate(c, err) ==
    /\ pc[c] = "cleanup"
    /\ cleanups[c] # <<>>
    /\ NextCleanup(c) = "removeTemplate"
    /\ cleanups' = Popped(c)
    /\ IF RemovesTemplate(c)
       THEN LET name == TemplateName(hash[c])
                failed == err \/ DropDatabaseRefused(name, Sessions(name))
            IN /\ MayFail(err)
               /\ Invoked(c, "Remove", err)
               /\ must(c, failed, "Remove", "cleanup")
               /\ dbs' = IF failed THEN dbs ELSE [dbs EXCEPT ![name] = Absent]
               /\ rows' = IF failed THEN rows ELSE [rows EXCEPT ![name] = 0]
       ELSE /\ ~err
            /\ UNCHANGED <<dbs, rows, calls, faults, pc, reported>>
    /\ UNCHANGED <<hash, lock, done, handle, swallowed, sawExists, clonedFrom>>
    /\ UNCHANGED <<env, conns, others, names>>

\* `for _, conn := range p.conns { conn.Close(...) }`: every cached
\* connection is closed and stays in the map.
Closed(cs) ==
    [k \in DOMAIN cs |-> IF cs[k] = "none" THEN "none" ELSE "closed"]

\* PgDb.Drop: closes the cached connections, connects to p.rootDsn (connect
\* hands out the cached connection if there is one, closed or not, and
\* makes the map again if it is nil), ends the sessions of the database
\* p.name with pg_terminate_backend, runs DROP DATABASE IF EXISTS "p.name"
\* and sets p.conns = nil.  When it fails after connect, the root connection
\* stays in the map, closed by the deferred root.Close.
Drop(c, err, resume) ==
    LET name == handle[c].name
        terminated == 0
        failed == \/ err
                  \/ Closed(conns[c]).root = "closed"
                  \/ DropDatabaseRefused(name, terminated)
    IN /\ MayFail(err)
       /\ Invoked(c, "Drop", err)
       /\ must(c, failed, "Drop", resume)
       /\ dbs' = IF failed THEN dbs ELSE [dbs EXCEPT ![name] = Absent]
       /\ rows' = IF failed THEN rows ELSE [rows EXCEPT ![name] = 0]
       /\ others' = IF failed THEN others ELSE [others EXCEPT ![name] = 0]
       /\ IF failed
          THEN \E root \in {Closed(conns[c]).root, "closed"} :
                  conns' = [conns EXCEPT ![c] =
                               [Closed(@) EXCEPT !.root = root]]
          ELSE conns' = [conns EXCEPT ![c] = NoConns]

\* func() { db.Drop(t) }, the teardown New registered.
CleanupDrop(c, err) ==
    /\ pc[c] = "cleanup"
    /\ cleanups[c] # <<>>
    /\ NextCleanup(c) = "drop"
    /\ cleanups' = Popped(c)
    /\ Drop(c, err, "cleanup")
    /\ UNCHANGED <<hash, lock, done, handle, swallowed, sawExists, clonedFrom>>
    /\ UNCHANGED <<env, names>>

\* All cleanups have run: the test is over.
Finish(c) ==
    /\ pc[c] = "cleanup"
    /\ cleanups[c] = <<>>
    /\ pc' = [pc EXCEPT ![c] = "ended"]
    /\ UNCHANGED <<hash, dbs, lock, done, cleanups, handle, reported,
                   swallowed, faults, calls, sawExists, clonedFrom>>
    /\ UNCHANGED <<env, rows, conns, others, names>>

\* New never closes `root`: the session, and with it every advisory lock it
\* holds, lasts until the connection is dropped after the test (when the
\* test binary exits, or when the unreachable connection is finalized).
\* Nothing in the code says when that happens.
SessionEnds(c) ==
    /\ pc[c] = "ended"
    /\ \E k \in LockKeys : lock[k] = c
    /\ lock' = [k \in LockKeys |-> IF lock[k] = c THEN NoCaller ELSE lock[k]]
    /\ UNCHANGED <<pc, hash, dbs, done, cleanups, handle, reported,
                   swallowed, faults, calls, sawExists, clonedFrom>>
    /\ UNCHANGED <<env, rows, conns, others, names>>

\* ------------------------------------------------- the use of a handle

\* An Insert that connects to the template the handle was cloned from.
InsertTargetTemplate(c) == TemplateName(hash[c])

\* PgDb.Insert: conn := p.connect(t, p.dsn): the rows go to the database
\* p.dsn points at.
InsertTarget(c) == ConfDatabase(handle[c].dsn)

\* db.Insert(t, table, data...) in the test body: connect hands out the
\* cached connection for p.dsn or opens one, which the server refuses when
\* the database is gone; then one INSERT.
Insert(c, err) ==
    /\ pc[c] = "returned"
    /\ rows[InsertTarget(c)] < MaxInserts
    /\ MayFail(err)
    /\ Invoked(c, "Insert", err)
    /\ LET target == InsertTarget(c)
           connected == conns[c].db = "open"
                        \/ (conns[c].db = "none" /\ DbExists(target))
           failed == err \/ ~connected
       IN /\ must(c, failed, "Insert", "returned")
          /\ rows' = IF failed THEN rows ELSE [rows EXCEPT ![target] = @ + 1]
          /\ conns' = IF connected THEN [conns EXCEPT ![c].db = "open"]
                      ELSE conns
    /\ UNCHANGED <<hash, dbs, lock, done, cleanups, handle, swallowed,
                   sawExists, clonedFrom, env, others, names>>

\* db.Drop(t) called by the test body itself; the registered teardown
\* stays registered.
TestDrop(c, err) ==
    /\ pc[c] = "returned"
    /\ calls[c]["Drop"] < MaxDropsInTest
    /\ Drop(c, err, "returned")
    /\ UNCHANGED <<hash, lock, done, cleanups, handle, swallowed, sawExists,
                   clonedFrom, env, names>>

\* PgDb.Name: `return p.dsn`
Name(p) == p.dsn

\* ------------------------------------------------------ database names

\* The characters of the names, as code points: - 0 Z ^ _ a
NameChars == {45, 48, 90, 94, 95, 97}

Names == UNION {[1..k -> NameChars] : k \in 0..MaxNameLen}

\* The character class [a-zA-z0-9_] of pgDbNameRegex: the ranges a-z, A-z
\* and 0-9, and the underscore.
InClass(ch) ==
    \/ (97 <= ch /\ ch <= 122)
    \/ (65 <= ch /\ ch <= 122)
    \/ (48 <= ch /\ ch <= 57)
    \/ ch = 95

\* pgDbNameRegex.MatchString(name), "^[a-zA-z0-9_]+$": one or more
\* characters, all of the class.
MatchString(name) ==
    Len(name) >= 1 /\ \A i \in 1..Len(name) : InClass(name[i])

\* The backend operations that put a database name into a statement.
NamingOps == {"Create", "CreateFromTemplate", "Remove", "Drop"}

\* fmt.Sprintf(statement, verifyPgDbName(t, name)) in Create,
\* CreateFromTemplate, Remove and Drop: verifyPgDbName invokes the hook
\* when the name does not match; the hook halts, so the statement is built
\* and sent for a name that matched only.
Interpolates(op) ==
    /\ verdict # "reported"
    /\ op \notin issued
    /\ verdict' = IF MatchString(vname) THEN "accepted" ELSE "reported"
    /\ issued' = IF MatchString(vname) THEN issued \cup {op} ELSE issued
    /\ UNCHANGED <<pc, hash, dbs, lock, done, cleanups, handle, reported,
                   swallowed, faults, calls, sawExists, clonedFrom, env,
                   rows, conns, others, vname>>

\* -------------------------------------------------------- other clients

\* Another client of the server (the program under test that was given
\* Dsn(), a psql, a pooled connection a migration tool left open) connects
\* to a database.
ClientConnects(n) ==
    /\ DbExists(n)
    /\ others[n] < MaxSessions
    /\ others' = [others EXCEPT ![n] = @ + 1]
    /\ UNCHANGED <<pc, hash, dbs, lock, done, cleanups, handle, reported,
                   swallowed, faults, calls, sawExists, clonedFrom, env,
                   rows, conns, names>>

ClientDisconnects(n) ==
    /\ others[n] > 0
    /\ others' = [others EXCEPT ![n] = @ - 1]
    /\ UNCHANGED <<pc, hash, dbs, lock, done, cleanups, handle, reported,
                   swallowed, faults, calls, sawExists, clonedFrom, env,
                   rows, conns, names>>

\* ------------------------------------------------------ specifications

\* One step of caller c in which the operation ends with `err`.
Step(c, err) ==
    \/ Connect(c, err)
    \/ Hash(c, err)
    \/ Lock(c, err)
    \/ Exists(c, err)
    \/ Create(c, err)
    \/ NewDsnTemplate(c, err)
    \/ CreateFromTemplate(c, err)
    \/ Unlock(c, err)
    \/ NewDsnTestDb(c, err)
    \/ NewDb(c, err)
    \/ CleanupTemplate(c, err)
    \/ CleanupDrop(c, err)

Next ==
    \E c \in Callers :
        \/ \E err \in BOOLEAN : Step(c, err)
        \/ \E out \in CmdOutcomes : Migrate(c, out)
        \/ TestEnd(c)
        \/ Finish(c)
        \/ SessionEnds(c)

Spec == Init /\ [][Next]_vars

\* The steps of caller c in which nothing fails.
Progress(c) ==
    \/ Step(c, FALSE)
    \/ Migrate(c, "nil")
    \/ TestEnd(c)
    \/ Finish(c)

\* The Go scheduler runs every goroutine that can run: a test that is not
\* waiting for the advisory lock takes its next step.  The end of a session
\* is not scheduled by anything.
FairSpec == Spec /\ \A c \in Callers : WF_vars(Progress(c))

\* The tests use their handles: they insert rows and may drop the database
\* themselves.  All tests have the same migrations, and an operation fails
\* only where the state makes it fail: an Insert into a dropped database,
\* a statement on a closed connection.
InitUse == Start([Defaults EXCEPT !.faultable = {}, !.digests = {"h1"}])

\* No session outlives its test with a lock here: Unlock is always reached.
NextUse ==
    \E c \in Callers :
        \/ \E err \in BOOLEAN : Step(c, err)
        \/ \E out \in CmdOutcomes : Migrate(c, out)
        \/ \E err \in BOOLEAN : Insert(c, err)
        \/ \E err \in BOOLEAN : TestDrop(c, err)
        \/ TestEnd(c)
        \/ Finish(c)

SpecUse == InitUse /\ [][NextUse]_vars

\* Other clients connect to the databases while the tests run.
NextClients ==
    \/ Next
    \/ \E n \in DbNames : ClientConnects(n)
    \/ \E n \in DbNames : ClientDisconnects(n)

SpecClients == Init /\ [][NextClients]_vars

\* Some tests call NewPg with a nil Migrator.
InitNil ==
    \E m \in [Callers -> {"cli", "nil"}] :
        Start([Defaults EXCEPT !.migrator = m])

SpecNil == InitNil /\ [][Next]_vars

\* The backend is handed one name, any of Names, by one or more of its
\* operations.
InitNames == \E n \in Names : StartNamed(Defaults, n)

NextNames == \E op \in NamingOps : Interpolates(op)

SpecNames == InitNames /\ [][NextNames]_vars

\* ErrorHandler is the default or a substituted function that records the
\* failure and returns.  Only Migrate fails here: what New does after any
\* other failed call that returned is not what this specification is for.
InitRec ==
    \E hk \in {"fatal", "record"} :
        Start([Defaults EXCEPT !.hook = hk, !.faultable = {"Migrate"}])

SpecRec == InitRec /\ [][Next]_vars

\* ---------------------------------------------------------- properties

\* New has ended for the caller: it returned a handle or the hook ended it.
NewEnded(c) == pc[c] \in {"returned", "cleanup", "ended"}

CallersOf(h) == {c \in Callers : hash[c] = h}

RECURSIVE Total(_, _)
\* How often the callers in cs invoked op, together.
Total(cs, op) ==
    IF cs = {} THEN 0
    ELSE LET c == CHOOSE x \in cs : TRUE
         IN calls[c][op] + Total(cs \ {c}, op)

\* C1: while no operation has failed, among the callers with the same hash
\* at most one finds Exists = false and Migrate is invoked at most once;
\* a caller that found Exists = true performs no Create and no Migrate; and
\* once one of them has its handle, Migrate was invoked exactly once, by the
\* one caller that found Exists = false, which also performed the Create.
C1_MigrateExactlyOnce ==
    faults = 0 =>
        \A h \in Hashes :
            LET cs == CallersOf(h)
                first == {c \in cs : sawExists[c] = "no"}
            IN /\ Cardinality(first) <= 1
               /\ Total(cs, "Migrate") <= 1
               /\ \A c \in cs : sawExists[c] = "yes" =>
                      /\ calls[c]["Create"] = 0
                      /\ calls[c]["Migrate"] = 0
                      /\ pc[c] \notin {"create", "newdsn1", "migrate"}
               /\ (\E c \in cs : handle[c] # NoDb) =>
                      /\ Total(cs, "Migrate") = 1
                      /\ Total(cs, "Create") = 1
                      /\ Cardinality(first) = 1
                      /\ \A c \in first : calls[c]["Migrate"] = 1
                                          /\ calls[c]["Create"] = 1

\* Two callers with one hash both have their handles, nothing failed: one
\* migrated, the other found the template.
C1_Witness ==
    /\ faults = 0
    /\ \E c1, c2 \in Callers :
          /\ c1 # c2
          /\ hash[c1] = hash[c2]
          /\ handle[c1] # NoDb
          /\ handle[c2] # NoDb
          /\ sawExists[c1] = "no"
          /\ sawExists[c2] = "yes"

\* C2: whenever CreateFromTemplate has cloned a template for a caller, the
\* template held the schema of the migrations with the caller's hash (it
\* was not blank, not partially migrated, and its Migrate had not failed).
C2_CloneOfMigratedTemplate ==
    \A c \in Callers :
        clonedFrom[c] # "none" => clonedFrom[c] = hash[c]

\* Between the return of Lock and the return of Unlock.
InLockedSection(c) ==
    pc[c] \in {"exists", "create", "newdsn1", "migrate", "clone", "unlock"}

LockedOps == {"Exists", "Create", "Migrate", "CreateFromTemplate"}

HoldsLock(c) ==
    hash[c] # NoHash /\ lock[LockKey(TemplateName(hash[c]))] = c

\* C3 (states): two callers between Lock and Unlock have different template
\* names, and a caller between Lock and Unlock holds the lock of its name.
C3_Exclusion ==
    /\ \A c1, c2 \in Callers :
          (c1 # c2 /\ InLockedSection(c1) /\ InLockedSection(c2))
              => TemplateName(hash[c1]) # TemplateName(hash[c2])
    /\ \A c \in Callers : InLockedSection(c) => HoldsLock(c)

\* C3 (steps): Exists, Create, Migrate and CreateFromTemplate are invoked
\* by a caller that holds the lock, and Unlock is invoked only after the
\* caller's CreateFromTemplate has completed.
C3_LockedSteps ==
    \A c \in Callers :
        /\ \A op \in LockedOps :
              calls'[c][op] # calls[c][op] => HoldsLock(c)
        /\ calls'[c]["Unlock"] # calls[c]["Unlock"] =>
              /\ HoldsLock(c)
              /\ clonedFrom[c] # "none"
              /\ DbExists(TestDbName(c))

\* C3: mutual exclusion per template name; the create-or-reuse decision and
\* the clone happen under the lock; Unlock comes after the clone.
C3_MutualExclusion == []C3_Exclusion /\ [][C3_LockedSteps]_vars

\* Two callers with one hash: one is migrating under the lock while the
\* other waits in Lock.
C3_Witness ==
    \E c1, c2 \in Callers :
        /\ c1 # c2
        /\ hash[c1] = hash[c2]
        /\ pc[c1] = "migrate"
        /\ HoldsLock(c1)
        /\ pc[c2] = "lock"

\* The caller's Migrate failed: the migrate command did not end with nil.
MigrateFailed(c) == "Migrate" \in (reported[c] \cup swallowed[c])

\* The step in which the caller's test is over.
Ends(c) == pc[c] # "ended" /\ pc'[c] = "ended"

C4_RemovedAtEnd ==
    \A c \in Callers :
        (Ends(c) /\ faults = 1 /\ MigrateFailed(c))
            => ~DbExists(TemplateName(hash[c]))'

\* C4: when Migrate was the one operation that failed, the caller's
\* template database does not exist when the test of the failed call is
\* over (so the next caller finds Exists = false).
C4_FailedTemplateRemoved == [][C4_RemovedAtEnd]_vars

\* C5: every provisioning call eventually ends, with a handle or a failure.
C5_EveryCallEnds == \A c \in Callers : <>NewEnded(c)

\* The paths on which the claim says New ends.
EndedOnNamedPath(c) ==
    /\ NewEnded(c)
    /\ \/ handle[c] # NoDb
       \/ "Migrate" \in reported[c]
       \/ "CreateFromTemplate" \in reported[c]

\* C6: a call that has ended with a handle, a Migrate failure or a
\* CreateFromTemplate failure has invoked Lock once and Unlock once, and
\* its session holds no lock.
C6_LockedOnceReleasedOnce ==
    \A c \in Callers :
        EndedOnNamedPath(c) =>
            /\ calls[c]["Lock"] = 1
            /\ calls[c]["Unlock"] = 1
            /\ \A k \in LockKeys : lock[k] # c

ReportedInNew(c) == reported[c] \cap ProvisioningOps # {}

\* C7 (states): a call in which an operation of New reported an error is
\* over and has no handle.
C7_NoHandle ==
    \A c \in Callers :
        ReportedInNew(c) => (handle[c] = NoDb /\ pc[c] \in {"cleanup", "ended"})

\* C7 (steps): the hook is invoked in the step in which the operation
\* fails, and after it no operation of New is invoked by that call.
C7_NoFurtherSteps ==
    \A c \in Callers :
        /\ \A op \in ProvisioningOps :
              (op \in reported'[c] /\ op \notin reported[c])
                  => (calls'[c][op] = calls[c][op] + 1 /\ ~ReportedInNew(c))
        /\ ReportedInNew(c) =>
              /\ \A op \in ProvisioningOps : calls'[c][op] = calls[c][op]
              /\ handle'[c] = NoDb

\* C7: an error reported inside New ends the call at once, without a handle.
C7_FailureEndsCall == []C7_NoHandle /\ [][C7_NoFurtherSteps]_vars

\* A call that failed in CreateFromTemplate, under the lock, and is over.
C7_Witness ==
    \E c \in Callers :
        /\ "CreateFromTemplate" \in reported[c]
        /\ pc[c] = "ended"
        /\ calls[c]["Unlock"] = 0

\* C8: every operation that failed had the hook invoked for it.
C8_NothingSwallowed == \A c \in Callers : swallowed[c] = {}

Teardowns(c) ==
    Cardinality({i \in DOMAIN cleanups[c] : cleanups[c][i] = "drop"})

\* C9: a call that returned a handle has exactly one teardown, registered
\* or already run; Drop is invoked at most once per handle and exactly once
\* when the test is over; after it has run without an error the database
\* the call cloned, which is the one the handle names, does not exist; a
\* call without a handle has no teardown.
C9_OneTeardown ==
    \A c \in Callers :
        /\ handle[c] # NoDb =>
              /\ Teardowns(c) + calls[c]["Drop"] = 1
              /\ pc[c] = "ended" => calls[c]["Drop"] = 1
              /\ (calls[c]["Drop"] = 1 /\ "Drop" \notin reported[c])
                    => (handle[c].name = TestDbName(c)
                        /\ ~DbExists(TestDbName(c)))
        /\ handle[c] = NoDb =>
              /\ Teardowns(c) = 0
              /\ calls[c]["Drop"] = 0

\* A handle's teardown has run and its database, which existed, is gone.
C9_Witness ==
    \E c \in Callers :
        /\ handle[c] # NoDb
        /\ clonedFrom[c] # "none"
        /\ pc[c] = "ended"
        /\ calls[c]["Drop"] = 1
        /\ "Drop" \notin reported[c]
        /\ ~DbExists(TestDbName(c))

\* The template of h holds the schema of h's migrations.
TemplateReady(h) == dbs[TemplateName(h)] = h

\* C10 (steps): a template whose migration completed is not removed.
C10_TemplateKept ==
    \A h \in Hashes : TemplateReady(h) => TemplateReady(h)'

\* C10 (states): when nothing failed and all k callers of a hash have their
\* handles, whether their tests are over or not, the template is there and
\* there were one Create, one Migrate and k CreateFromTemplate calls.
C10_Counts ==
    \A h \in Hashes :
        LET cs == CallersOf(h)
        IN (faults = 0 /\ cs # {} /\ \A c \in cs : handle[c] # NoDb) =>
              /\ TemplateReady(h)
              /\ Total(cs, "Create") = 1
              /\ Total(cs, "Migrate") = 1
              /\ Total(cs, "CreateFromTemplate") = Cardinality(cs)

\* C10: a migrated template is kept and reused.
C10_TemplateReuse == []C10_Counts /\ [][C10_TemplateKept]_vars

\* Two calls with one hash, one after the other: the first test is over
\* (its cleanups ran) before the second call starts; both got handles.
C10_Witness ==
    \E c1, c2 \in Callers :
        /\ c1 # c2
        /\ hash[c1] = hash[c2]
        /\ pc[c1] = "ended"
        /\ handle[c1] # NoDb
        /\ handle[c2] # NoDb
        /\ sawExists[c2] = "yes"
        /\ faults = 0
        /\ TemplateReady(hash[c1])
        /\ Total({c1, c2}, "CreateFromTemplate") = 2

\* C11 (states): no template holds a row a test inserted.
C11_TemplatesUntouched ==
    \A h \in Hashes : rows[TemplateName(h)] = 0

\* C11 (steps): a step in which a caller invokes Insert changes the schema
\* and the rows of no database but the caller's own instance; and a step
\* that changes the schema or the rows of a caller's instance, or creates
\* or removes it, is a step of that caller and of nobody else.
C11_Frame ==
    \A c \in Callers :
        /\ calls'[c]["Insert"] # calls[c]["Insert"] =>
              \A n \in DbNames \ {TestDbName(c)} :
                  dbs'[n] = dbs[n] /\ rows'[n] = rows[n]
        /\ (dbs'[TestDbName(c)] # dbs[TestDbName(c)]
               \/ rows'[TestDbName(c)] # rows[TestDbName(c)]) =>
              /\ calls'[c] # calls[c]
              /\ \A c2 \in Callers \ {c} : calls'[c2] = calls[c2]

\* C11: what a test inserts through its handle stays in its own instance,
\* and nobody but the owner changes or removes an instance.
C11_Isolation == []C11_TemplatesUntouched /\ [][C11_Frame]_vars

\* Two handles cloned from one template: one test has inserted a row, the
\* other instance and the template hold none.
C11_Witness ==
    \E c1, c2 \in Callers :
        /\ c1 # c2
        /\ hash[c1] = hash[c2]
        /\ pc[c1] = "returned"
        /\ pc[c2] = "returned"
        /\ calls[c1]["Insert"] = 1
        /\ rows[TestDbName(c1)] = 1
        /\ DbExists(TestDbName(c2))
        /\ rows[TestDbName(c2)] = 0
        /\ rows[TemplateName(hash[c1])] = 0

\* C12: a call that has returned a handle invoked CreateFromTemplate once,
\* and that created the one database the handle names, which exists until
\* the handle is dropped; two handles name, and point at, different
\* databases; and no instance name is a template name.
C12_OneInstancePerHandle ==
    /\ \A c \in Callers :
          handle[c] # NoDb =>
              /\ calls[c]["CreateFromTemplate"] = 1
              /\ "CreateFromTemplate" \notin reported[c]
              /\ handle[c].name = TestDbName(c)
              /\ ConfDatabase(handle[c].dsn) = TestDbName(c)
              /\ calls[c]["Drop"] = 0 => DbExists(handle[c].name)
    /\ \A c1, c2 \in Callers :
          (c1 # c2 /\ handle[c1] # NoDb /\ handle[c2] # NoDb) =>
              /\ handle[c1].name # handle[c2].name
              /\ handle[c1].dsn # handle[c2].dsn
    /\ \A c \in Callers : \A h \in Hashes :
          /\ TestDbName(c) # TemplateName(h)
          /\ handle[c].name # TemplateName(h)

\* Two tests hold handles to two existing instances of one template.
C12_Witness ==
    \E c1, c2 \in Callers :
        /\ c1 # c2
        /\ hash[c1] = hash[c2]
        /\ pc[c1] = "returned"
        /\ pc[c2] = "returned"
        /\ DbExists(handle[c1].name)
        /\ DbExists(handle[c2].name)
        /\ handle[c1].name # handle[c2].name

\* C13: a caller waiting in Lock for its template name is never kept
\* waiting by a caller that holds the lock of another template name:
\* callers with different hashes do not contend.
C13_NoContention ==
    \A c1, c2 \in Callers :
        (/\ c1 # c2
         /\ pc[c1] = "lock"
         /\ HoldsLock(c2)
         /\ TemplateName(hash[c1]) # TemplateName(hash[c2]))
            => lock[LockKey(TemplateName(hash[c1]))] # c2

\* C14: two calls whose Hash results differ have different template names;
\* when neither failed and both have their handles, each of the two
\* templates exists with the schema of its own migrations, from one Create
\* and one Migrate of a caller with that hash, each call cloned its own
\* template, and this holds whether the first call's test is over or not.
C14_TemplatePerHash ==
    \A c1, c2 \in Callers :
        (c1 # c2 /\ hash[c1] # NoHash /\ hash[c2] # NoHash
           /\ hash[c1] # hash[c2]) =>
            /\ TemplateName(hash[c1]) # TemplateName(hash[c2])
            /\ (faults = 0 /\ handle[c1] # NoDb /\ handle[c2] # NoDb) =>
                  \A c \in {c1, c2} :
                      /\ TemplateReady(hash[c])
                      /\ clonedFrom[c] = hash[c]
                      /\ Total(CallersOf(hash[c]), "Create") = 1
                      /\ Total(CallersOf(hash[c]), "Migrate") = 1

\* The migrations changed between two calls: the first test is over, the
\* second call built its own template, and the first template is there.
C14_Witness ==
    \E c1, c2 \in Callers :
        /\ hash[c1] # NoHash
        /\ hash[c2] # NoHash
        /\ hash[c1] # hash[c2]
        /\ pc[c1] = "ended"
        /\ handle[c1] # NoDb
        /\ pc[c2] = "returned"
        /\ calls[c2]["Migrate"] = 1
        /\ faults = 0
        /\ TemplateReady(hash[c1])
        /\ TemplateReady(hash[c2])

\* C15: a call of NewPg with a nil Migrator does not fail: it invokes
\* neither Hash nor Migrate, and when no operation failed it ends with a
\* handle to a database cloned from a blank template.
C15_NilMigratorBlankDb ==
    \A c \in Callers :
        env.migrator[c] = "nil" =>
            /\ pc[c] # "panicked"
            /\ calls[c]["Hash"] = 0
            /\ calls[c]["Migrate"] = 0
            /\ (faults = 0 /\ NewEnded(c)) =>
                  (handle[c] # NoDb /\ clonedFrom[c] = "blank")

\* C16: Name() of a returned handle is the name New passed to
\* CreateFromTemplate, the database Drop removes, and not the connection
\* string.
C16_NameIsDatabaseName ==
    \A c \in Callers :
        handle[c] # NoDb =>
            /\ Name(handle[c]) = TestDbName(c)
            /\ Name(handle[c]) = handle[c].name
            /\ Name(handle[c]) # handle[c].dsn

\* A name of ASCII letters, digits and underscores, and not empty.
WellFormed(name) ==
    /\ Len(name) >= 1
    /\ \A i \in 1..Len(name) :
          \/ (65 <= name[i] /\ name[i] <= 90)
          \/ (97 <= name[i] /\ name[i] <= 122)
          \/ (48 <= name[i] /\ name[i] <= 57)
          \/ name[i] = 95

\* C17: a name is in a statement of Create, CreateFromTemplate, Remove or
\* Drop only after verifyPgDbName accepted it, and verifyPgDbName accepts a
\* name if and only if it is not empty and made of ASCII letters, digits
\* and underscores.
C17_NamesValidated ==
    /\ issued # {} => verdict = "accepted"
    /\ verdict # "unchecked" => (verdict = "accepted" <=> WellFormed(vname))

C18_RemoveStep ==
    \A c \in Callers :
        (calls'[c]["Remove"] = calls[c]["Remove"] + 1 /\ faults' = faults) =>
            /\ "Remove" \notin reported'[c]
            /\ ~DbExists(TemplateName(hash[c]))'

\* C18: a Remove that nothing from outside makes fail (its connection
\* works) succeeds and leaves the database absent, whatever sessions are
\* connected to the database when it is invoked.
C18_RemoveForceDrops == [][C18_RemoveStep]_vars

\* C19 as stated: with a hook that records and returns, a Migrate failure
\* the hook was invoked for leaves done false, no instance is cloned by
\* the call, and the template is gone when the test is over.
C19_RemovedWithoutHalt ==
    \A c \in Callers :
        (env.hook = "record" /\ "Migrate" \in reported[c]) =>
            /\ done[c] = FALSE
            /\ clonedFrom[c] = "none"
            /\ pc[c] = "ended" => ~DbExists(TemplateName(hash[c]))

\* C19, amended: the removal depends on the hook halting.  After a failed
\* Migrate for which the halting hook was invoked, done is false, the call
\* clones nothing and returns no handle, and its cleanup invokes Remove.
\* After a failed Migrate for which a hook was invoked that returned, or no
\* hook at all, done is true, Remove is never invoked, the call clones the
\* template the failed migration left (blank or partly migrated), and the
\* template stays.
C19_RemovalNeedsHalt ==
    \A c \in Callers :
        MigrateFailed(c) =>
            IF "Migrate" \in reported[c] /\ env.hook = "fatal"
            THEN /\ done[c] = FALSE
                 /\ clonedFrom[c] = "none"
                 /\ handle[c] = NoDb
                 /\ calls[c]["CreateFromTemplate"] = 0
                 /\ pc[c] = "ended" => calls[c]["Remove"] = 1
            ELSE /\ done[c] = TRUE
                 /\ calls[c]["Remove"] = 0
                 /\ pc[c] # "clone" => clonedFrom[c] \in {"blank", "partial"}
                 /\ DbExists(TemplateName(hash[c]))

\* The hook recorded the Migrate failure and returned: the call went on,
\* cloned the partly migrated template and returned a handle; its test is
\* over and the template is still there.
C19_Witness ==
    \E c \in Callers :
        /\ env.hook = "record"
        /\ "Migrate" \in reported[c]
        /\ done[c] = TRUE
        /\ clonedFrom[c] = "partial"
        /\ handle[c] # NoDb
        /\ pc[c] = "ended"
        /\ dbs[TemplateName(hash[c])] = "partial"

\* C20 (states): after a Drop that reported nothing, the instance does not
\* exist, before and after any further Drop.
C20_StaysAbsent ==
    \A c \in Callers :
        (calls[c]["Drop"] >= 1 /\ "Drop" \notin reported[c])
            => ~DbExists(TestDbName(c))

\* C20 (steps): a Drop on a handle whose earlier Drop reported nothing
\* reports nothing either, leaves the instance absent and changes no other
\* database.
C20_SecondDrop ==
    \A c \in Callers :
        (/\ calls'[c]["Drop"] = calls[c]["Drop"] + 1
         /\ calls[c]["Drop"] >= 1
         /\ "Drop" \notin reported[c]
         /\ faults' = faults) =>
            /\ "Drop" \notin reported'[c]
            /\ ~DbExists(handle[c].name)'
            /\ \A n \in DbNames \ {handle[c].name} :
                  dbs'[n] = dbs[n] /\ rows'[n] = rows[n]

\* C20: Drop is idempotent on a handle.
C20_DropIdempotent == []C20_StaysAbsent /\ [][C20_SecondDrop]_vars

\* A test inserted a row, dropped its database itself, and the registered
\* teardown dropped it again: nothing was reported, the instance is gone,
\* and the template is there.
C20_Witness ==
    \E c \in Callers :
        /\ calls[c]["Insert"] >= 1
        /\ calls[c]["Drop"] = 2
        /\ pc[c] = "ended"
        /\ reported[c] = {}
        /\ clonedFrom[c] = hash[c]
        /\ ~DbExists(handle[c].name)
        /\ TemplateReady(hash[c])

====
